---- MODULE Spec2Model ----
(***************************************************************************)
(* PersistentPriorityQueue (src/main.py): a priority queue whose whole     *)
(* state is one text file of lines "<priority> <item>\n".  Every method    *)
(* re-reads the file, and every mutating method except push rewrites it    *)
(* with open(path, 'w').  The file is modelled as its characters, so that  *)
(* the line codec (f"{priority} {item}\n" on the way out,                  *)
(* line.strip().split(' ', 1) and int() on the way in) is computed, not    *)
(* assumed.                                                                *)
(***************************************************************************)
EXTENDS Integers, Sequences, FiniteSets, TLC

VARIABLES
    file,    \* the store: [exists, content], content a sequence of characters
    last,    \* the last completed call: its name, arguments, outcome, and the store before it
    phase,   \* of a run: "push" while it pushes, "pop" once it pops, "renumbered" after a reorder
    pushed,  \* of a push-then-pop run: the (priority, item) pairs pushed, in order
    popped,  \* of a push-then-pop run: the outcomes of its pops, in order
    wr,      \* the write in progress, when the steps of a call are told apart
    proc,    \* of concurrent callers: each caller's call and its position in it
    alt,     \* the store at the path given with --file, a file other than the default
    cli      \* the last invocation of the command line: its flags and what became of it

vars == <<file, last, phase, pushed, popped, wr, proc, alt, cli>>

-----------------------------------------------------------------------------
(* Bounds of the model.                                                    *)

\* calls that add a line are made only while the store holds fewer lines
MaxEntries == 3
\* insert_and_shift_up is not called once a stored priority has reached this
PriorityCap == 3

\* the priorities given to push, change_priority and insert_and_shift_up
Priorities == {-1, 1}

\* the item texts given to the calls: two plain ones and the empty text,
\* whose line "<priority> \n" does not decode
Items == { <<"a">>, <<"b">>, <<>> }

-----------------------------------------------------------------------------
(* Text: Python's str operations used by the codec.                        *)

Digits == <<"0", "1", "2", "3", "4", "5", "6", "7", "8", "9">>

DigitSet == { Digits[i] : i \in 1..10 }

DigitVal(c) == (CHOOSE i \in 1..10 : Digits[i] = c) - 1

\* str.strip() with no argument strips whitespace
IsSpace(c) == c \in {" ", "\n", "\t", "\r"}

RECURSIVE LStrip(_)
LStrip(s) == IF s # <<>> /\ IsSpace(Head(s)) THEN LStrip(Tail(s)) ELSE s

RECURSIVE RStrip(_)
RStrip(s) == IF s # <<>> /\ IsSpace(s[Len(s)]) THEN RStrip(SubSeq(s, 1, Len(s) - 1)) ELSE s

Strip(s) == LStrip(RStrip(s))

\* the first position of character c in s, 0 when there is none
IndexOf(s, c) ==
    IF \E i \in 1..Len(s) : s[i] = c
    THEN CHOOSE i \in 1..Len(s) : s[i] = c /\ \A j \in 1..(i - 1) : s[j] # c
    ELSE 0

\* str(n) for a natural number
RECURSIVE NatToStr(_)
NatToStr(n) == IF n < 10 THEN <<Digits[n + 1]>> ELSE NatToStr(n \div 10) \o <<Digits[(n % 10) + 1]>>

\* the "{priority}" of the f-string: str(int)
IntToStr(n) == IF n < 0 THEN <<"-">> \o NatToStr(0 - n) ELSE NatToStr(n)

RECURSIVE DigitsToNat(_)
DigitsToNat(s) == IF s = <<>> THEN 0 ELSE 10 * DigitsToNat(SubSeq(s, 1, Len(s) - 1)) + DigitVal(s[Len(s)])

AllDigits(s) == s # <<>> /\ \A i \in 1..Len(s) : s[i] \in DigitSet

\* whether int(s) succeeds, for a token without whitespace
IsIntLiteral(s) ==
    IF s # <<>> /\ Head(s) \in {"-", "+"} THEN AllDigits(Tail(s)) ELSE AllDigits(s)

\* int(s)
StrToInt(s) ==
    IF Head(s) = "-" THEN 0 - DigitsToNat(Tail(s))
    ELSE IF Head(s) = "+" THEN DigitsToNat(Tail(s))
    ELSE DigitsToNat(s)

\* iterating a text file: the lines, each with its newline, the last possibly without
RECURSIVE SplitLines(_)
SplitLines(s) ==
    IF s = <<>> THEN <<>>
    ELSE LET k == IndexOf(s, "\n")
         IN IF k = 0 THEN <<s>>
            ELSE <<SubSeq(s, 1, k)>> \o SplitLines(SubSeq(s, k + 1, Len(s)))

-----------------------------------------------------------------------------
(* The codec.                                                              *)

\* f"{priority} {item}\n"
FormatLine(priority, item) == IntToStr(priority) \o <<" ">> \o item \o <<"\n">>

\* line.strip().split(' ', 1) yields two parts and int() accepts the first
Decodable(line) ==
    LET s == Strip(line)
        k == IndexOf(s, " ")
    IN k # 0 /\ IsIntLiteral(SubSeq(s, 1, k - 1))

\* priority, item = line.strip().split(' ', 1); (int(priority), item)
DecodeLine(line) ==
    LET s == Strip(line)
        k == IndexOf(s, " ")
    IN [priority |-> StrToInt(SubSeq(s, 1, k - 1)), item |-> SubSeq(s, k + 1, Len(s))]

\* The read loop every method but push starts with.  open(path, 'r') raises
\* FileNotFoundError when the file is absent; a line that does not unpack
\* into two parts, or whose first part is no integer, raises ValueError.
ReadItems(f) ==
    IF ~f.exists THEN [err |-> "FileNotFoundError", items |-> <<>>]
    ELSE LET lines == SplitLines(f.content)
         IN IF \E i \in 1..Len(lines) : ~Decodable(lines[i])
            THEN [err |-> "ValueError: decode", items |-> <<>>]
            ELSE [err |-> "", items |-> [i \in 1..Len(lines) |-> DecodeLine(lines[i])]]

RECURSIVE EncodeItems(_)
EncodeItems(items) ==
    IF items = <<>> THEN <<>>
    ELSE FormatLine(Head(items).priority, Head(items).item) \o EncodeItems(Tail(items))

\* with open(path, 'w') as file: for priority, item in items: file.write(...)
WriteItems(items) == [exists |-> TRUE, content |-> EncodeItems(items)]

-----------------------------------------------------------------------------
(* The methods, as functions from the store (and the arguments) to the     *)
(* outcome: the store afterwards, the exception raised ("" for none), the  *)
(* text returned (pop, peek, print_queue) and the boolean returned         *)
(* (is_empty).                                                             *)

Outcome(f, e, r, b) == [file |-> f, err |-> e, ret |-> r, flag |-> b]

\* an exception leaves the method before anything is written
Raise(f, e) == Outcome(f, e, <<>>, FALSE)

\* a variant of MinItem: the last of the items with the least priority
MinItemLast(items) ==
    items[CHOOSE i \in 1..Len(items) :
              /\ \A j \in 1..Len(items) : items[i].priority <= items[j].priority
              /\ \A j \in (i + 1)..Len(items) : items[j].priority # items[i].priority]

\* min(items, key=lambda x: x[0]): the first of the items with the least priority
MinItem(items) ==
    items[CHOOSE i \in 1..Len(items) :
              /\ \A j \in 1..Len(items) : items[i].priority <= items[j].priority
              /\ \A j \in 1..(i - 1) : items[j].priority # items[i].priority]

\* a variant of Remove: drops the last element equal to x
RemoveLast(items, x) ==
    LET k == CHOOSE i \in 1..Len(items) :
                 items[i] = x /\ \A j \in (i + 1)..Len(items) : items[j] # x
    IN SubSeq(items, 1, k - 1) \o SubSeq(items, k + 1, Len(items))

\* items.remove(x): drops the first element equal to x
Remove(items, x) ==
    LET k == CHOOSE i \in 1..Len(items) : items[i] = x /\ \A j \in 1..(i - 1) : items[j] # x
    IN SubSeq(items, 1, k - 1) \o SubSeq(items, k + 1, Len(items))

\* one insertion of a stable sort: x goes behind every element whose key is not greater
RECURSIVE InsertByPriority(_, _)
InsertByPriority(sorted, x) ==
    IF sorted = <<>> THEN <<x>>
    ELSE IF Head(sorted).priority <= x.priority
         THEN <<Head(sorted)>> \o InsertByPriority(Tail(sorted), x)
         ELSE <<x>> \o sorted

\* items.sort(key=lambda x: x[0]): list.sort is stable
RECURSIVE SortItems(_)
SortItems(items) ==
    IF items = <<>> THEN <<>>
    ELSE InsertByPriority(SortItems(SubSeq(items, 1, Len(items) - 1)), items[Len(items)])

\* as push, with the file opened with 'w' instead of 'a'
push_truncating(f, item, priority) ==
    Outcome([exists |-> TRUE, content |-> FormatLine(priority, item)], "", <<>>, FALSE)

\* open(path, 'a') creates the file when it is absent and appends the line
push(f, item, priority) ==
    Outcome([exists |-> TRUE, content |-> f.content \o FormatLine(priority, item)], "", <<>>, FALSE)

\* a variant of pop without the test for an empty list: min() raises on it
pop_unchecked(f) ==
    LET r == ReadItems(f)
    IN IF r.err # "" THEN Raise(f, r.err)
       ELSE IF r.items = <<>> THEN Raise(f, "ValueError: min() arg is an empty sequence")
       ELSE LET highest_priority_item == MinItem(r.items)
            IN Outcome(WriteItems(Remove(r.items, highest_priority_item)), "",
                       highest_priority_item.item, FALSE)

pop(f) ==
    LET r == ReadItems(f)
    IN IF r.err # "" THEN Raise(f, r.err)
       ELSE IF r.items = <<>> THEN Raise(f, "IndexError: Queue is empty")
       ELSE LET highest_priority_item == MinItem(r.items)
            IN Outcome(WriteItems(Remove(r.items, highest_priority_item)), "",
                       highest_priority_item.item, FALSE)

\* a variant of peek that removes what it returns
peek_removing(f) == pop(f)

peek(f) ==
    LET r == ReadItems(f)
    IN IF r.err # "" THEN Raise(f, r.err)
       ELSE IF r.items = <<>> THEN Raise(f, "IndexError: Queue is empty")
       ELSE Outcome(f, "", MinItem(r.items).item, FALSE)

\* not any(True for line in file): no line is decoded
is_empty(f) ==
    IF ~f.exists THEN Raise(f, "FileNotFoundError")
    ELSE Outcome(f, "", <<>>, SplitLines(f.content) = <<>>)

\* a variant of change_priority without the not-found test
change_priority_unchecked(f, target_item, new_priority) ==
    LET r == ReadItems(f)
        updated_items == [i \in 1..Len(r.items) |->
                             IF r.items[i].item = target_item
                             THEN [priority |-> new_priority, item |-> r.items[i].item]
                             ELSE r.items[i]]
    IN IF r.err # "" THEN Raise(f, r.err)
       ELSE Outcome(WriteItems(updated_items), "", <<>>, FALSE)

\* a variant of change_priority that stops at the first match
change_priority_first_only(f, target_item, new_priority) ==
    LET r == ReadItems(f)
        found == \E i \in 1..Len(r.items) : r.items[i].item = target_item
        first == CHOOSE i \in 1..Len(r.items) :
                     r.items[i].item = target_item /\ \A j \in 1..(i - 1) : r.items[j].item # target_item
        updated_items == [i \in 1..Len(r.items) |->
                             IF i = first
                             THEN [priority |-> new_priority, item |-> r.items[i].item]
                             ELSE r.items[i]]
    IN IF r.err # "" THEN Raise(f, r.err)
       ELSE IF ~found THEN Raise(f, "ValueError: not found")
       ELSE Outcome(WriteItems(updated_items), "", <<>>, FALSE)

change_priority(f, target_item, new_priority) ==
    LET r == ReadItems(f)
        updated_items == [i \in 1..Len(r.items) |->
                             IF r.items[i].item = target_item
                             THEN [priority |-> new_priority, item |-> r.items[i].item]
                             ELSE r.items[i]]
        found == \E i \in 1..Len(r.items) : r.items[i].item = target_item
    IN IF r.err # "" THEN Raise(f, r.err)
       ELSE IF ~found THEN Raise(f, "ValueError: not found")
       ELSE Outcome(WriteItems(updated_items), "", <<>>, FALSE)

\* a variant of reorder_priorities that renumbers without sorting
reorder_priorities_unsorted(f) ==
    LET r == ReadItems(f)
        updated_items == [i \in 1..Len(r.items) |-> [priority |-> i, item |-> r.items[i].item]]
    IN IF r.err # "" THEN Raise(f, r.err)
       ELSE Outcome(WriteItems(updated_items), "", <<>>, FALSE)

\* as reorder_priorities, with entries of equal priority in reverse disk order
reorder_priorities_ties_reversed(f) ==
    LET r == ReadItems(f)
        reversed == [i \in 1..Len(r.items) |-> r.items[Len(r.items) + 1 - i]]
        items == SortItems(reversed)
        updated_items == [i \in 1..Len(items) |-> [priority |-> i, item |-> items[i].item]]
    IN IF r.err # "" THEN Raise(f, r.err)
       ELSE Outcome(WriteItems(updated_items), "", <<>>, FALSE)

\* as reorder_priorities, numbering from 0 (enumerate without start=1)
reorder_priorities_from_zero(f) ==
    LET r == ReadItems(f)
        items == SortItems(r.items)
        updated_items == [i \in 1..Len(items) |-> [priority |-> i - 1, item |-> items[i].item]]
    IN IF r.err # "" THEN Raise(f, r.err)
       ELSE Outcome(WriteItems(updated_items), "", <<>>, FALSE)

\* as reorder_priorities, with the list sorted by descending priority
reorder_priorities_descending(f) ==
    LET r == ReadItems(f)
        sorted == SortItems(r.items)
        items == [i \in 1..Len(sorted) |-> sorted[Len(sorted) + 1 - i]]
        updated_items == [i \in 1..Len(items) |-> [priority |-> i, item |-> items[i].item]]
    IN IF r.err # "" THEN Raise(f, r.err)
       ELSE Outcome(WriteItems(updated_items), "", <<>>, FALSE)

reorder_priorities(f) ==
    LET r == ReadItems(f)
        items == SortItems(r.items)
        updated_items == [i \in 1..Len(items) |-> [priority |-> i, item |-> items[i].item]]
    IN IF r.err # "" THEN Raise(f, r.err)
       ELSE Outcome(WriteItems(updated_items), "", <<>>, FALSE)

\* print(file.read())
print_queue(f) ==
    IF ~f.exists THEN Raise(f, "FileNotFoundError")
    ELSE Outcome(f, "", f.content, FALSE)

\* as insert_and_shift_up, shifting only the priorities above the target
insert_and_shift_up_above(f, item, target_priority) ==
    LET r == ReadItems(f)
        shifted == [i \in 1..Len(r.items) |->
                       [priority |-> IF r.items[i].priority > target_priority
                                     THEN r.items[i].priority + 1
                                     ELSE r.items[i].priority,
                        item |-> r.items[i].item]]
        items == SortItems(Append(shifted, [priority |-> target_priority, item |-> item]))
    IN IF r.err # "" THEN Raise(f, r.err)
       ELSE Outcome(WriteItems(items), "", <<>>, FALSE)

insert_and_shift_up(f, item, target_priority) ==
    LET r == ReadItems(f)
        shifted == [i \in 1..Len(r.items) |->
                       [priority |-> IF r.items[i].priority >= target_priority
                                     THEN r.items[i].priority + 1
                                     ELSE r.items[i].priority,
                        item |-> r.items[i].item]]
        items == SortItems(Append(shifted, [priority |-> target_priority, item |-> item]))
    IN IF r.err # "" THEN Raise(f, r.err)
       ELSE Outcome(WriteItems(items), "", <<>>, FALSE)

-----------------------------------------------------------------------------
(* The calls of a single client, one after the other.                      *)

NoFile == [exists |-> FALSE, content |-> <<>>]

EmptyFile == [exists |-> TRUE, content |-> <<>>]

Call(name, item, priority, out) ==
    /\ file' = out.file
    /\ last' = [op |-> name, item |-> item, priority |-> priority, err |-> out.err,
                ret |-> out.ret, flag |-> out.flag, before |-> file]

NoCall == [op |-> "none", item |-> <<>>, priority |-> 0, err |-> "", ret |-> <<>>,
           flag |-> FALSE, before |-> NoFile]

NoWrite == [state |-> "idle", op |-> "none", old |-> NoFile, new |-> NoFile, pending |-> <<>>]

\* no concurrent caller, and no invocation of the command line yet
NoProc == <<>>

NoInvocation == [flags |-> {}, withFile |-> FALSE, accepted |-> FALSE, ran |-> "none",
                 before |-> NoFile, altBefore |-> NoFile]

NumLines(f) == Len(SplitLines(f.content))

\* no stored priority has reached the cap (an undecodable store has none)
BelowCap(f) ==
    LET items == ReadItems(f).items
    IN \A i \in 1..Len(items) : items[i].priority < PriorityCap

Init ==
    /\ file \in {NoFile, EmptyFile}
    /\ last = [NoCall EXCEPT !.before = file]
    /\ phase = "push"
    /\ pushed = <<>>
    /\ popped = <<>>
    /\ wr = NoWrite
    /\ proc = NoProc
    /\ alt = NoFile
    /\ cli = NoInvocation

Push ==
    /\ NumLines(file) < MaxEntries
    /\ \E item \in Items, priority \in Priorities :
           Call("push", item, priority, push(file, item, priority))
    /\ UNCHANGED <<phase, pushed, popped, wr, proc, alt, cli>>

Pop ==
    /\ Call("pop", <<>>, 0, pop(file))
    /\ UNCHANGED <<phase, pushed, popped, wr, proc, alt, cli>>

Peek ==
    /\ Call("peek", <<>>, 0, peek(file))
    /\ UNCHANGED <<phase, pushed, popped, wr, proc, alt, cli>>

IsEmpty ==
    /\ Call("is_empty", <<>>, 0, is_empty(file))
    /\ UNCHANGED <<phase, pushed, popped, wr, proc, alt, cli>>

ChangePriority ==
    /\ \E target_item \in Items, new_priority \in Priorities :
           Call("change_priority", target_item, new_priority,
                change_priority(file, target_item, new_priority))
    /\ UNCHANGED <<phase, pushed, popped, wr, proc, alt, cli>>

ReorderPriorities ==
    /\ Call("reorder_priorities", <<>>, 0, reorder_priorities(file))
    /\ UNCHANGED <<phase, pushed, popped, wr, proc, alt, cli>>

PrintQueue ==
    /\ Call("print_queue", <<>>, 0, print_queue(file))
    /\ UNCHANGED <<phase, pushed, popped, wr, proc, alt, cli>>

InsertAndShiftUp ==
    /\ NumLines(file) < MaxEntries
    /\ BelowCap(file)
    /\ \E item \in Items, target_priority \in Priorities :
           Call("insert_and_shift_up", item, target_priority,
                insert_and_shift_up(file, item, target_priority))
    /\ UNCHANGED <<phase, pushed, popped, wr, proc, alt, cli>>

Next ==
    \/ Push
    \/ Pop
    \/ Peek
    \/ IsEmpty
    \/ ChangePriority
    \/ ReorderPriorities
    \/ PrintQueue
    \/ InsertAndShiftUp

Spec == Init /\ [][Next]_vars

-----------------------------------------------------------------------------
(* A run that pushes onto an empty store and then pops until a pop raises. *)
(* The items are those that try the codec: with a space inside, in front   *)
(* and behind, the empty text, and one with a newline.  The priorities     *)
(* include a negative one and two whose order as numbers is not their      *)
(* order as text.                                                          *)

RunItems == { <<"a">>, <<"a", " ", "b">>, <<" ", "a">>, <<"a", " ">>, <<>>, <<"a", "\n", "b">> }

RunPriorities == {-1, 2, 10}

InitRun ==
    /\ file = EmptyFile
    /\ last = [NoCall EXCEPT !.before = file]
    /\ phase = "push"
    /\ pushed = <<>>
    /\ popped = <<>>
    /\ wr = NoWrite
    /\ proc = NoProc
    /\ alt = NoFile
    /\ cli = NoInvocation

RunPush ==
    /\ phase = "push"
    /\ Len(pushed) < MaxEntries
    /\ \E item \in RunItems, priority \in RunPriorities :
           /\ Call("push", item, priority, push(file, item, priority))
           /\ pushed' = Append(pushed, [priority |-> priority, item |-> item])
    /\ UNCHANGED <<phase, popped, wr, proc, alt, cli>>

\* the run stops popping at the first pop that raises
RunPop ==
    /\ IF popped = <<>> THEN TRUE ELSE popped[Len(popped)].err = ""
    /\ Call("pop", <<>>, 0, pop(file))
    /\ phase' = "pop"
    /\ popped' = Append(popped, [err |-> pop(file).err, ret |-> pop(file).ret])
    /\ UNCHANGED <<pushed, wr, proc, alt, cli>>

NextRun ==
    \/ RunPush
    \/ RunPop

SpecRun == InitRun /\ [][NextRun]_vars

-----------------------------------------------------------------------------
(* The write of a call, step by step.  push opens the file with 'a' and     *)
(* writes its line; the other mutating methods open it with 'w', which      *)
(* truncates it, and write the new lines into the truncated file.  What     *)
(* was written reaches the file at the latest when it is closed; the        *)
(* process may be killed, or a write may fail, at any step between.  The    *)
(* parts in which the text reaches the file are taken to be lines.          *)

InitSteps ==
    /\ file \in {NoFile, EmptyFile}
    /\ last = [NoCall EXCEPT !.before = file]
    /\ phase = "push"
    /\ pushed = <<>>
    /\ popped = <<>>
    /\ wr = NoWrite
    /\ proc = NoProc
    /\ alt = NoFile
    /\ cli = NoInvocation

\* the method has read the file and computed the new list without raising;
\* open(path, 'w') leaves the file empty
OpenForWrite(name, out) ==
    /\ wr.state = "idle"
    /\ out.err = ""
    /\ file' = EmptyFile
    /\ wr' = [state |-> "writing", op |-> name, old |-> file, new |-> out.file,
              pending |-> SplitLines(out.file.content)]
    /\ UNCHANGED <<last, phase, pushed, popped, proc, alt, cli>>

\* open(path, 'a') creates the file when it is absent and keeps what it holds
PushOpens ==
    /\ wr.state = "idle"
    /\ NumLines(file) < MaxEntries
    /\ \E item \in Items, priority \in Priorities :
           wr' = [state |-> "writing", op |-> "push", old |-> file,
                  new |-> push(file, item, priority).file,
                  pending |-> <<FormatLine(priority, item)>>]
    /\ file' = [exists |-> TRUE, content |-> file.content]
    /\ UNCHANGED <<last, phase, pushed, popped, proc, alt, cli>>

PopOpens == OpenForWrite("pop", pop(file))

ChangePriorityOpens ==
    \E target_item \in Items, new_priority \in Priorities :
        OpenForWrite("change_priority", change_priority(file, target_item, new_priority))

ReorderPrioritiesOpens == OpenForWrite("reorder_priorities", reorder_priorities(file))

InsertAndShiftUpOpens ==
    /\ NumLines(file) < MaxEntries
    /\ BelowCap(file)
    /\ \E item \in Items, target_priority \in Priorities :
           OpenForWrite("insert_and_shift_up", insert_and_shift_up(file, item, target_priority))

\* file.write(...): the next line reaches the file
WriteLine ==
    /\ wr.state = "writing"
    /\ wr.pending # <<>>
    /\ file' = [exists |-> TRUE, content |-> file.content \o Head(wr.pending)]
    /\ wr' = [wr EXCEPT !.pending = Tail(wr.pending)]
    /\ UNCHANGED <<last, phase, pushed, popped, proc, alt, cli>>

\* the with block ends after the last write
CloseFile ==
    /\ wr.state = "writing"
    /\ wr.pending = <<>>
    /\ wr' = [wr EXCEPT !.state = "idle"]
    /\ UNCHANGED <<file, last, phase, pushed, popped, proc, alt, cli>>

\* the process is killed, or a write raises OSError: nothing more is written
Crash ==
    /\ wr.state = "writing"
    /\ wr' = [wr EXCEPT !.state = "idle", !.pending = <<>>]
    /\ UNCHANGED <<file, last, phase, pushed, popped, proc, alt, cli>>

NextSteps ==
    \/ PushOpens
    \/ PopOpens
    \/ ChangePriorityOpens
    \/ ReorderPrioritiesOpens
    \/ InsertAndShiftUpOpens
    \/ WriteLine
    \/ CloseFile
    \/ Crash

SpecSteps == InitSteps /\ [][NextSteps]_vars

-----------------------------------------------------------------------------
(* Renumbering runs.  The store starts as any list of up to MaxStored       *)
(* entries, which is what that many pushes leave, or absent; the calls      *)
(* made are the ones that do not push and do not change a priority.         *)
(* phase is "renumbered" from the first reorder_priorities that succeeds.   *)

\* the largest number of entries of the store a renumbering run starts with
MaxStored == 3

StoredItems == { <<"a">>, <<"b">> }

StoredPriorities == {1, 2, 3}

\* the target priorities of insert_and_shift_up: below, inside and above 1..n
Targets == {0, 1, 2, 4}

StoredEntries == [priority : StoredPriorities, item : StoredItems]

\* the lists of exactly n entries
RECURSIVE EntryLists(_)
EntryLists(n) ==
    IF n = 0 THEN { <<>> }
    ELSE { Append(s, e) : s \in EntryLists(n - 1), e \in StoredEntries }

StoredFiles == { WriteItems(s) : s \in UNION { EntryLists(n) : n \in 0..MaxStored } }

\* insert_and_shift_up is called while the store holds at most MaxStored
\* lines, none with a priority above MaxStored
Insertable(f) ==
    /\ NumLines(f) <= MaxStored
    /\ LET items == ReadItems(f).items
       IN \A i \in 1..Len(items) : items[i].priority <= MaxStored

InitRenumber ==
    /\ file \in StoredFiles \cup {NoFile}
    /\ last = [NoCall EXCEPT !.before = file]
    /\ phase = "push"
    /\ pushed = <<>>
    /\ popped = <<>>
    /\ wr = NoWrite
    /\ proc = NoProc
    /\ alt = NoFile
    /\ cli = NoInvocation

RenumberReorder ==
    /\ Call("reorder_priorities", <<>>, 0, reorder_priorities(file))
    /\ phase' = IF reorder_priorities(file).err = "" THEN "renumbered" ELSE phase
    /\ UNCHANGED <<pushed, popped, wr, proc, alt, cli>>

RenumberPop ==
    /\ Call("pop", <<>>, 0, pop(file))
    /\ UNCHANGED <<phase, pushed, popped, wr, proc, alt, cli>>

RenumberPeek ==
    /\ Call("peek", <<>>, 0, peek(file))
    /\ UNCHANGED <<phase, pushed, popped, wr, proc, alt, cli>>

RenumberIsEmpty ==
    /\ Call("is_empty", <<>>, 0, is_empty(file))
    /\ UNCHANGED <<phase, pushed, popped, wr, proc, alt, cli>>

RenumberInsert ==
    /\ Insertable(file)
    /\ \E item \in StoredItems, target_priority \in Targets :
           Call("insert_and_shift_up", item, target_priority,
                insert_and_shift_up(file, item, target_priority))
    /\ UNCHANGED <<phase, pushed, popped, wr, proc, alt, cli>>

NextRenumber ==
    \/ RenumberReorder
    \/ RenumberPop
    \/ RenumberPeek
    \/ RenumberIsEmpty
    \/ RenumberInsert

SpecRenumber == InitRenumber /\ [][NextRenumber]_vars

-----------------------------------------------------------------------------
(* Two callers on one store, without locking.  Each makes one call.  A     *)
(* push opens the file for appending and its line reaches the end of the   *)
(* file, wherever that then is, when the file is closed.  Every other      *)
(* mutating method reads the whole file, computes the new list, opens the  *)
(* file with 'w', which empties it, and its text is written from the       *)
(* start of the file when the file is closed.                              *)

\* the largest number of entries of the store the two callers start with
MaxShared == 2

Callers == {1, 2}

SharedItems == { <<"a">>, <<"b">> }

SharedPriorities == {1, 2}

\* the item the callers push, one the store does not hold
PushedItems == { <<"c">> }

RECURSIVE SharedLists(_)
SharedLists(n) ==
    IF n = 0 THEN { <<>> }
    ELSE { Append(s, e) : s \in SharedLists(n - 1),
                          e \in [priority : SharedPriorities, item : SharedItems] }

SharedFiles == { WriteItems(s) : s \in UNION { SharedLists(n) : n \in 0..MaxShared } }

Idle == [pc |-> "idle", op |-> "none", item |-> <<>>, priority |-> 0, towrite |-> <<>>,
         ret |-> <<>>, err |-> "", saw |-> "none"]

Other(p) == CHOOSE q \in Callers : q # p

\* as Truncated, with the file opened without emptying it
NotTruncated(f) == [exists |-> TRUE, content |-> f.content]

\* open(path, 'w')
Truncated(f) == EmptyFile

\* the text written from the start of a file that holds content
WrittenOver(content, text) ==
    text \o SubSeq(content, Len(text) + 1, Len(content))

InitShared ==
    /\ file \in SharedFiles
    /\ last = [NoCall EXCEPT !.before = file]
    /\ phase = "push"
    /\ pushed = <<>>
    /\ popped = <<>>
    /\ wr = NoWrite
    /\ proc = [p \in Callers |-> Idle]
    /\ alt = NoFile
    /\ cli = NoInvocation

\* with open(self.file_path, 'a') as file
PushOpen(p) ==
    /\ proc[p].pc = "idle"
    /\ \E item \in PushedItems, priority \in SharedPriorities :
           proc' = [proc EXCEPT ![p] = [Idle EXCEPT !.pc = "appending", !.op = "push",
                                                    !.item = item, !.priority = priority]]
    /\ file' = [exists |-> TRUE, content |-> file.content]
    /\ UNCHANGED <<last, phase, pushed, popped, wr, alt, cli>>

\* file.write(f"{priority} {item}\n") and the close that puts it in the file
PushClose(p) ==
    /\ proc[p].pc = "appending"
    /\ file' = push(file, proc[p].item, proc[p].priority).file
    /\ proc' = [proc EXCEPT ![p].pc = "done", ![p].saw = proc[Other(p)].pc]
    /\ UNCHANGED <<last, phase, pushed, popped, wr, alt, cli>>

\* the read loop of a method and the list it computes; a method that raises ends here
Load(p, name, item, priority, out) ==
    /\ proc[p].pc = "idle"
    /\ proc' = [proc EXCEPT ![p] = [pc |-> IF out.err = "" THEN "loaded" ELSE "done",
                                    op |-> name, item |-> item, priority |-> priority,
                                    towrite |-> out.file.content, ret |-> out.ret,
                                    err |-> out.err, saw |-> proc[Other(p)].pc]]
    /\ UNCHANGED <<file, last, phase, pushed, popped, wr, alt, cli>>

PopLoad(p) == Load(p, "pop", <<>>, 0, pop(file))

ChangePriorityLoad(p) ==
    \E target_item \in SharedItems, new_priority \in SharedPriorities :
        Load(p, "change_priority", target_item, new_priority,
             change_priority(file, target_item, new_priority))

ReorderPrioritiesLoad(p) == Load(p, "reorder_priorities", <<>>, 0, reorder_priorities(file))

InsertAndShiftUpLoad(p) ==
    \E item \in SharedItems, target_priority \in SharedPriorities :
        Load(p, "insert_and_shift_up", item, target_priority,
             insert_and_shift_up(file, item, target_priority))

\* with open(self.file_path, 'w') as file
Truncate(p) ==
    /\ proc[p].pc = "loaded"
    /\ file' = Truncated(file)
    /\ proc' = [proc EXCEPT ![p].pc = "truncated"]
    /\ UNCHANGED <<last, phase, pushed, popped, wr, alt, cli>>

\* the writes of the loop, put in the file when it is closed
Flush(p) ==
    /\ proc[p].pc = "truncated"
    /\ file' = [exists |-> TRUE, content |-> WrittenOver(file.content, proc[p].towrite)]
    /\ proc' = [proc EXCEPT ![p].pc = "done"]
    /\ UNCHANGED <<last, phase, pushed, popped, wr, alt, cli>>

NextShared ==
    \E p \in Callers :
        \/ PushOpen(p)
        \/ PushClose(p)
        \/ PopLoad(p)
        \/ ChangePriorityLoad(p)
        \/ ReorderPrioritiesLoad(p)
        \/ InsertAndShiftUpLoad(p)
        \/ Truncate(p)
        \/ Flush(p)

SpecShared == InitShared /\ [][NextShared]_vars

-----------------------------------------------------------------------------
(* The command line (the __main__ block).  The queue object is built on    *)
(* "priority_queue.txt" before the arguments are parsed; file is that      *)
(* store and alt is the store at the path given with --file.  argparse     *)
(* rejects two flags of one mutually exclusive group; the if/elif chain    *)
(* then runs the method of the first flag, in its own order, that is set.  *)

\* an invocation is made with at most this many action flags
MaxFlags == 2

\* the store holds at most this many lines when an invocation adds one
MaxCliEntries == 2

CliItems == { <<"a">> }

\* the priority argument, as the text the command line carries
CliPriorityTexts == { <<"1">> }

\* group = parser.add_mutually_exclusive_group() and its seven flags
group == {"push", "pop", "peek", "is_empty", "change_priority", "reorder_priorities",
          "print_queue"}

\* group2 = parser.add_mutually_exclusive_group() and its one flag
group2 == {"insert_and_shift_up"}

ActionFlags == group \cup group2

\* the order of the if/elif chain
Dispatch == <<"push", "pop", "peek", "is_empty", "change_priority", "reorder_priorities",
              "print_queue", "insert_and_shift_up">>

\* parser.parse_args(): no two flags of one group
parse_args(flags) ==
    /\ Cardinality(flags \cap group) <= 1
    /\ Cardinality(flags \cap group2) <= 1

\* the branch of the chain taken: the first flag in its order that is set
Branch(flags) ==
    IF flags = {} THEN "none"
    ELSE Dispatch[CHOOSE k \in 1..Len(Dispatch) :
                      /\ Dispatch[k] \in flags
                      /\ \A j \in 1..(k - 1) : Dispatch[j] \notin flags]

\* the method the branch calls on pq, with int() of the priority argument
Perform(name, f, item, priority_text) ==
    CASE name = "push" -> push(f, item, StrToInt(priority_text))
      [] name = "pop" -> pop(f)
      [] name = "peek" -> peek(f)
      [] name = "is_empty" -> is_empty(f)
      [] name = "change_priority" -> change_priority(f, item, StrToInt(priority_text))
      [] name = "reorder_priorities" -> reorder_priorities(f)
      [] name = "print_queue" -> print_queue(f)
      [] name = "insert_and_shift_up" -> insert_and_shift_up(f, item, StrToInt(priority_text))

InitCli ==
    /\ file \in {NoFile, EmptyFile}
    /\ last = [NoCall EXCEPT !.before = file]
    /\ phase = "push"
    /\ pushed = <<>>
    /\ popped = <<>>
    /\ wr = NoWrite
    /\ proc = NoProc
    /\ alt = NoFile
    /\ cli = NoInvocation

\* argparse exits with an error before any method is called
Rejected ==
    /\ \E flags \in SUBSET ActionFlags, withFile \in BOOLEAN :
           /\ Cardinality(flags) <= MaxFlags
           /\ ~parse_args(flags)
           /\ cli' = [flags |-> flags, withFile |-> withFile, accepted |-> FALSE,
                       ran |-> "none", before |-> file, altBefore |-> alt]
    /\ UNCHANGED <<file, last, phase, pushed, popped, wr, proc, alt>>

\* no action flag: no branch of the chain is taken
NoAction ==
    /\ \E withFile \in BOOLEAN :
           cli' = [flags |-> {}, withFile |-> withFile, accepted |-> TRUE,
                   ran |-> "none", before |-> file, altBefore |-> alt]
    /\ UNCHANGED <<file, last, phase, pushed, popped, wr, proc, alt>>

\* the branch taken calls its method on pq, the queue on "priority_queue.txt"
Invoke ==
    /\ \E flags \in SUBSET ActionFlags, withFile \in BOOLEAN,
          item \in CliItems, priority_text \in CliPriorityTexts :
           /\ flags # {}
           /\ Cardinality(flags) <= MaxFlags
           /\ parse_args(flags)
           /\ Branch(flags) \in {"push", "insert_and_shift_up"} =>
                  /\ NumLines(file) < MaxCliEntries
                  /\ BelowCap(file)
           /\ Call(Branch(flags), item, StrToInt(priority_text),
                   Perform(Branch(flags), file, item, priority_text))
           /\ cli' = [flags |-> flags, withFile |-> withFile, accepted |-> TRUE,
                       ran |-> Branch(flags), before |-> file, altBefore |-> alt]
    /\ UNCHANGED <<phase, pushed, popped, wr, proc, alt>>

NextCli ==
    \/ Rejected
    \/ NoAction
    \/ Invoke

SpecCli == InitCli /\ [][NextCli]_vars

-----------------------------------------------------------------------------
(* What the claims speak of: the entries a store holds.  A store with a    *)
(* line that does not decode holds no sequence of entries; every method    *)
(* that reads it raises ValueError (the DecodeError of the error model).   *)

Readable(f) == ReadItems(f).err = ""

Entries(f) == ReadItems(f).items

Populated(f) == Readable(f) /\ Entries(f) # <<>>

EmptyQueueError == "IndexError: Queue is empty"

ItemNotFoundError == "ValueError: not found"

WithoutIndex(s, k) == SubSeq(s, 1, k - 1) \o SubSeq(s, k + 1, Len(s))

\* an item a line can carry: no newline in it, and not blank (the line of a
\* blank item, "<priority> ", does not decode)
IsEntryItem(item) ==
    /\ \A i \in 1..Len(item) : item[i] # "\n"
    /\ \E i \in 1..Len(item) : ~IsSpace(item[i])

\* the text under which the store holds a pushed item
StoredItem(e) == Entries(push(EmptyFile, e.item, e.priority).file)[1].item

\* perm lists the positions of the pairs in s by priority ascending, pairs
\* of equal priority in the order of s
IsStableOrder(perm, s) ==
    \A k, l \in 1..Len(s) :
        k < l => \/ s[perm[k]].priority < s[perm[l]].priority
                 \/ /\ s[perm[k]].priority = s[perm[l]].priority
                    /\ perm[k] < perm[l]

-----------------------------------------------------------------------------
\* C1: after pushes onto an empty store, the pops return the items by
\* priority ascending, items of equal priority in the order of their pushes,
\* and the pop after the last item raises the empty-queue error.  Stated for
\* pushes of items a line can carry; an item is told by the text the store
\* holds it under.
C1_PopsInPriorityThenPushOrder ==
    (phase = "pop" /\ \A i \in 1..Len(pushed) : IsEntryItem(pushed[i].item)) =>
        \E perm \in Permutations(1..Len(pushed)) :
            /\ IsStableOrder(perm, pushed)
            /\ \A k \in 1..Len(popped) :
                   IF k <= Len(pushed)
                   THEN popped[k] = [err |-> "", ret |-> StoredItem(pushed[perm[k]])]
                   ELSE popped[k] = [err |-> EmptyQueueError, ret |-> <<>>]

\* a run of three pushes, the least priority pushed last and the other two
\* equal with different items, popped to the end: three items and the error
C1_Witness ==
    /\ phase = "pop"
    /\ Len(pushed) = 3
    /\ Len(popped) = 4
    /\ \A i \in 1..3 : IsEntryItem(pushed[i].item)
    /\ pushed[1].priority = pushed[2].priority
    /\ pushed[3].priority < pushed[1].priority
    /\ StoredItem(pushed[1]) # StoredItem(pushed[2])
    /\ popped[4].err = EmptyQueueError

\* C5: for every item without a newline, a push onto an empty store and a
\* pop return the very text pushed and leave the store empty.
C5_PushPopReturnsItem ==
    (/\ Len(pushed) = 1
     /\ Len(popped) >= 1
     /\ \A i \in 1..Len(pushed[1].item) : pushed[1].item[i] # "\n") =>
        /\ popped[1] = [err |-> "", ret |-> pushed[1].item]
        /\ file = EmptyFile

-----------------------------------------------------------------------------
\* C2: during and after a mutating call, whether or not it is cut short by
\* a crash or a failed write, the store holds either the content from
\* before the call or the complete new content.
C2_StoreIsOldOrNew ==
    wr.op # "none" => (file.content = wr.old.content \/ file.content = wr.new.content)

-----------------------------------------------------------------------------
\* C3: on a populated store pop returns the item of the first entry, in
\* on-disk order, among those of least priority, removes exactly that entry
\* and leaves the other entries, and their order, as they were.
C3_PopTakesFirstMinimum ==
    (last.op = "pop" /\ Populated(last.before)) =>
        LET old == Entries(last.before)
        IN /\ last.err = ""
           /\ Readable(file)
           /\ \E k \in 1..Len(old) :
                  /\ \A j \in 1..Len(old) : old[k].priority <= old[j].priority
                  /\ \A j \in 1..(k - 1) : old[j].priority > old[k].priority
                  /\ last.ret = old[k].item
                  /\ Entries(file) = WithoutIndex(old, k)

\* a pop of a store of three entries whose least priority is shared by two
\* entries with different items, neither of them the first on disk
C3_Witness ==
    /\ last.op = "pop"
    /\ last.err = ""
    /\ Populated(last.before)
    /\ LET old == Entries(last.before)
       IN /\ Len(old) = 3
          /\ old[2].priority = old[3].priority
          /\ old[2].priority < old[1].priority
          /\ old[2].item # old[3].item

\* C4: peek returns what a pop of the same store would return (or raises
\* what it would raise) and leaves the store as it was, so a second peek
\* returns the same again.
C4_PeekAgreesWithPopAndKeepsStore ==
    last.op = "peek" =>
        /\ file = last.before
        /\ last.err = pop(last.before).err
        /\ last.ret = pop(last.before).ret
        /\ peek(file).err = last.err
        /\ peek(file).ret = last.ret
        /\ peek(file).file = last.before

\* a peek that returned an item of a store whose first entry is not the least
C4_Witness ==
    /\ last.op = "peek"
    /\ last.err = ""
    /\ Len(Entries(file)) >= 2
    /\ Entries(file)[1].priority > Entries(file)[2].priority
    /\ last.ret = Entries(file)[2].item
    /\ last.ret # Entries(file)[1].item

\* C6: on a store that does not exist yet every method behaves as on an
\* empty store.
C6_AbsentStoreIsEmptyStore ==
    ~last.before.exists =>
        /\ last.op = "is_empty" => (last.err = "" /\ last.flag)
        /\ last.op \in {"pop", "peek"} => last.err = EmptyQueueError
        /\ last.op = "reorder_priorities" => (last.err = "" /\ file = EmptyFile)
        /\ last.op = "insert_and_shift_up" =>
               /\ last.err = ""
               /\ Readable(file)
               /\ Entries(file) = <<[priority |-> last.priority, item |-> last.item]>>

\* C7: pop and peek of an empty store raise the empty-queue error, return
\* nothing and leave the store empty.
C7_EmptyStoreRaises ==
    (last.op \in {"pop", "peek"} /\ last.before = EmptyFile) =>
        /\ last.err = EmptyQueueError
        /\ last.ret = <<>>
        /\ file = EmptyFile

\* a pop of a store that exists and is empty
C7_Witness ==
    /\ last.op = "pop"
    /\ last.before = EmptyFile
    /\ last.err = EmptyQueueError

\* C8: change_priority for an item no entry has raises the not-found error
\* and leaves the content of the store as it was.
C8_ChangeOfAbsentItem ==
    LET old == Entries(last.before)
    IN (/\ last.op = "change_priority"
        /\ Readable(last.before)
        /\ \A i \in 1..Len(old) : old[i].item # last.item) =>
           /\ last.err = ItemNotFoundError
           /\ file = last.before

\* a change_priority for an item absent from a store of two or more entries
C8_Witness ==
    LET old == Entries(last.before)
    IN /\ last.op = "change_priority"
       /\ Readable(last.before)
       /\ Len(old) >= 2
       /\ \A i \in 1..Len(old) : old[i].item # last.item
       /\ last.err = ItemNotFoundError

\* C9: when an entry matches, change_priority gives the new priority to
\* every entry whose item is the target and leaves the number of entries,
\* the position of every entry and every other priority as they were.
C9_ChangeUpdatesEveryMatch ==
    LET old == Entries(last.before)
        new == Entries(file)
    IN (/\ last.op = "change_priority"
        /\ Readable(last.before)
        /\ \E i \in 1..Len(old) : old[i].item = last.item) =>
           /\ last.err = ""
           /\ Readable(file)
           /\ Len(new) = Len(old)
           /\ \A i \in 1..Len(old) :
                  /\ new[i].item = old[i].item
                  /\ old[i].item = last.item => new[i].priority = last.priority
                  /\ old[i].item # last.item => new[i].priority = old[i].priority

\* a change_priority that matched two entries, both with another priority
\* than the new one, beside an entry it did not match
C9_Witness ==
    /\ last.op = "change_priority"
    /\ last.err = ""
    /\ LET old == Entries(last.before)
       IN /\ Len(old) = 3
          /\ old[1].item = last.item /\ old[1].priority # last.priority
          /\ old[3].item = last.item /\ old[3].priority # last.priority
          /\ old[2].item # last.item /\ old[2].priority # last.priority

\* C10: after reorder_priorities the store holds the same items, ordered by
\* their previous priority ascending, entries of equal previous priority in
\* their previous order, and the entry at position k has priority k.
C10_ReorderSortsAndRenumbers ==
    (last.op = "reorder_priorities" /\ Readable(last.before)) =>
        LET old == Entries(last.before)
            new == Entries(file)
        IN /\ last.err = ""
           /\ Readable(file)
           /\ Len(new) = Len(old)
           /\ \A k \in 1..Len(new) : new[k].priority = k
           /\ \E perm \in Permutations(1..Len(old)) :
                  /\ \A k \in 1..Len(old) : new[k].item = old[perm[k]].item
                  /\ \A k, l \in 1..Len(old) :
                         k < l => \/ old[perm[k]].priority < old[perm[l]].priority
                                  \/ /\ old[perm[k]].priority = old[perm[l]].priority
                                     /\ perm[k] < perm[l]

\* a reorder_priorities of three entries that had to move one and keep a tie in order
C10_Witness ==
    /\ last.op = "reorder_priorities"
    /\ last.err = ""
    /\ LET old == Entries(last.before)
       IN /\ Len(old) = 3
          /\ old[1].priority = old[3].priority
          /\ old[2].priority < old[1].priority
          /\ old[1].item # old[3].item
          /\ old[1].priority # 2

-----------------------------------------------------------------------------
(* Renumbering: reorder_priorities and insert_and_shift_up.                *)

\* C11: reorder_priorities applied to the store that a reorder_priorities
\* call has just left, whether that call succeeded or raised, leaves the
\* store exactly as it is: twice in a row is the same as once.
C11_ReorderIsIdempotent ==
    last.op = "reorder_priorities" => reorder_priorities(file).file = file

\* a reorder_priorities call that rewrote a store of several entries with
\* other priorities
C11_Witness ==
    /\ last.op = "reorder_priorities"
    /\ last.err = ""
    /\ Len(Entries(file)) >= 2
    /\ file # last.before

\* the items that popping until a pop raises returns, in order
RECURSIVE PopAll(_)
PopAll(f) ==
    LET out == pop(f)
    IN IF out.err # "" THEN <<>> ELSE <<out.ret>> \o PopAll(out.file)

\* C19: popping until empty returns the same items in the same order from
\* the store that reorder_priorities left as from the store before it.
C19_ReorderKeepsServiceOrder ==
    last.op = "reorder_priorities" => PopAll(file) = PopAll(last.before)

\* a reorder_priorities call on a store whose disk order is not its service
\* order, and which holds two entries of one priority
C19_Witness ==
    /\ last.op = "reorder_priorities"
    /\ last.err = ""
    /\ LET old == Entries(last.before)
       IN /\ Len(old) >= 3
          /\ PopAll(last.before) # [i \in 1..Len(old) |-> old[i].item]
          /\ \E i, j \in 1..Len(old) : i < j /\ old[i].priority = old[j].priority
                                            /\ old[i].item # old[j].item

\* the priorities in the store are exactly 1..n, n the number of entries
Contiguous(f) ==
    /\ Readable(f)
    /\ LET items == Entries(f)
       IN { items[i].priority : i \in 1..Len(items) } = 1..Len(items)

\* C12, as claimed: in a run without push and change_priority, the store's
\* priorities are exactly 1..n in every state from the first successful
\* reorder_priorities on.
C12_ContiguousUntilPushOrChange ==
    phase = "renumbered" => Contiguous(file)

\* C12, amended: reorder_priorities leaves the priorities exactly 1..n; from
\* a store whose priorities are 1..n, peek, is_empty, reorder_priorities,
\* the pop of the only entry and insert_and_shift_up at a target in 1..n+1
\* leave them so, while a pop that leaves entries behind and an
\* insert_and_shift_up at a target outside 1..n+1 do not.
C12_ContiguousUntilPopOrInsert ==
    LET n == Len(Entries(last.before))
    IN /\ (last.op = "reorder_priorities" /\ last.err = "") => Contiguous(file)
       /\ (last.op \in {"peek", "is_empty"} /\ Contiguous(last.before)) => Contiguous(file)
       /\ (last.op = "pop" /\ Contiguous(last.before)) => (Contiguous(file) <=> n <= 1)
       /\ (last.op = "insert_and_shift_up" /\ Contiguous(last.before)) =>
              (Contiguous(file) <=> last.priority \in 1..(n + 1))

\* after a reorder_priorities, an insert_and_shift_up inside a store of
\* priorities 1..n, n >= 2, has left priorities 1..n+1
C12_Witness ==
    /\ phase = "renumbered"
    /\ last.op = "insert_and_shift_up"
    /\ Contiguous(last.before)
    /\ Len(Entries(last.before)) >= 2
    /\ last.priority = 2
    /\ Contiguous(file)

\* how many times x occurs in the list s
Count(s, x) == Cardinality({ i \in 1..Len(s) : s[i] = x })

\* C13: insert_and_shift_up(item, t) on a store of entries raises nothing and
\* leaves, sorted by ascending priority, the old entries, each with its
\* priority raised by 1 if it was >= t and unchanged if it was < t, and one
\* more entry (t, item).
C13_InsertShiftsFromTarget ==
    (last.op = "insert_and_shift_up" /\ Readable(last.before)) =>
        LET old == Entries(last.before)
            new == Entries(file)
            t == last.priority
            shifted == [i \in 1..Len(old) |->
                           [priority |-> old[i].priority + (IF old[i].priority < t THEN 0 ELSE 1),
                            item |-> old[i].item]]
            wanted == Append(shifted, [priority |-> t, item |-> last.item])
        IN /\ last.err = ""
           /\ Readable(file)
           /\ Len(new) = Len(old) + 1
           /\ \A k \in 1..Len(wanted) : Count(new, wanted[k]) = Count(wanted, wanted[k])
           /\ \A k \in 1..(Len(new) - 1) : new[k].priority <= new[k + 1].priority

\* the claim's example: on priorities 1, 2, 3 an insert at 2 has left the
\* first entry, the new entry, and the other two at priorities 3 and 4
C13_Witness ==
    /\ last.op = "insert_and_shift_up"
    /\ last.priority = 2
    /\ LET old == Entries(last.before)
           new == Entries(file)
       IN /\ Len(old) = 3 /\ Len(new) = 4
          /\ \A k \in 1..3 : old[k].priority = k
          /\ \A k \in 1..4 : new[k].priority = k
          /\ old[2].item # last.item
          /\ <<new[1].item, new[2].item, new[3].item, new[4].item>>
                 = <<old[1].item, last.item, old[2].item, old[3].item>>

-----------------------------------------------------------------------------
(* push.                                                                   *)

HasNewline(item) == \E i \in 1..Len(item) : item[i] = "\n"

\* C14: a push of an item with a newline raises and leaves the store as it
\* was; a push of any other item raises nothing and adds, after the lines
\* the store held and without touching them, the one line of (priority, item).
C14_PushRejectsNewline ==
    last.op = "push" =>
        IF HasNewline(last.item)
        THEN /\ last.err # ""
             /\ file = last.before
        ELSE /\ last.err = ""
             /\ file.content = last.before.content \o FormatLine(last.priority, last.item)

-----------------------------------------------------------------------------
(* is_empty.                                                               *)

\* the lines of the store that decode to an entry
DecodableLines(f) ==
    LET lines == SplitLines(f.content)
    IN { i \in 1..Len(lines) : Decodable(lines[i]) }

\* C15: on a store file that exists, is_empty returns, and returns true
\* exactly when no line of the store decodes to an entry, which is exactly
\* when pop would raise the empty-queue error; it returns false exactly when
\* pop would return an item.
C15_IsEmptyAgreesWithPop ==
    (last.op = "is_empty" /\ last.before.exists) =>
        /\ last.err = ""
        /\ last.flag <=> (DecodableLines(file) = {})
        /\ last.flag <=> (pop(file).err = EmptyQueueError)
        /\ ~last.flag <=> (pop(file).err = "")

-----------------------------------------------------------------------------
(* Two callers without locking.                                            *)

AllDone == \A p \in Callers : proc[p].pc = "done"

PushedLine(p) == FormatLine(proc[p].priority, proc[p].item)

IsRewrite(p) ==
    proc[p].op \in {"pop", "change_priority", "reorder_priorities", "insert_and_shift_up"}

\* C20: when a push completes between the load and the open-for-write of a
\* concurrent pop, change_priority, reorder_priorities or insert_and_shift_up
\* that succeeds, then once both have completed the store holds exactly what
\* that call computed from the store it loaded: the pushed item is in no
\* entry of the store, and it is not what the pop returned.
C20_PushDuringRewriteIsLost ==
    \A p \in Callers :
        (/\ AllDone
         /\ proc[p].op = "push"
         /\ proc[p].saw = "loaded"
         /\ IsRewrite(Other(p))) =>
            /\ proc[Other(p)].err = ""
            /\ file.content = proc[Other(p)].towrite
            /\ Readable(file)
            /\ \A i \in 1..Len(Entries(file)) : Entries(file)[i].item # proc[p].item
            /\ proc[Other(p)].ret # proc[p].item

\* a push completed while a pop had loaded a store of two entries and not
\* yet opened it for writing; both calls are done
C20_Witness ==
    \E p \in Callers :
        /\ AllDone
        /\ proc[p].op = "push"
        /\ proc[p].saw = "loaded"
        /\ proc[Other(p)].op = "pop"
        /\ proc[Other(p)].ret # <<>>
        /\ Len(Entries(last.before)) = 2
        /\ Len(Entries(file)) = 1

-----------------------------------------------------------------------------
(* The command line.                                                       *)

\* C17: an invocation with --file runs its method against the store at the
\* given path and leaves the store priority_queue.txt as it was; one
\* without --file runs it against priority_queue.txt and leaves the other.
C17_FileFlagSelectsStore ==
    (cli.accepted /\ cli.ran # "none") =>
        LET onDefault == Perform(cli.ran, cli.before, last.item, IntToStr(last.priority)).file
            onAlt == Perform(cli.ran, cli.altBefore, last.item, IntToStr(last.priority)).file
        IN IF cli.withFile
           THEN file = cli.before /\ alt = onAlt
           ELSE file = onDefault /\ alt = cli.altBefore

\* C18: an invocation with two different action flags is rejected and
\* changes no store, and an invocation that is accepted runs the method of
\* the one flag it carries.
C18_ActionFlagsExclusive ==
    /\ Cardinality(cli.flags) >= 2 =>
           /\ ~cli.accepted
           /\ cli.ran = "none"
           /\ file = cli.before
           /\ alt = cli.altBefore
    /\ (cli.accepted /\ cli.flags # {}) => cli.flags = {cli.ran}
====
